---- MODULE Spec2Model ----
(***************************************************************************)
(* jupyter-omnicm, HDFS contents manager and checkpoints.                  *)
(*                                                                         *)
(* State machine of HDFSContentsManager (hdfs_manager.py), its I/O mixin   *)
(* HDFSManagerMixin (hdfs_io.py) and HDFSCheckpoints (hdfs_checkpoints.py) *)
(* running against one HDFS namespace.                                     *)
(*                                                                         *)
(* Strings are sequences of tokens: a token stands for one character ("/", *)
(* ".", "-") or for a run of characters that no string operation of the    *)
(* code ever cuts ("ipynb", "checkpoint").  Every string function the code *)
(* uses (strip, split, rsplit, startswith, endswith, os.path.join,         *)
(* os.path.splitext) is an operator over these sequences.                  *)
(***************************************************************************)
EXTENDS Integers, Sequences, FiniteSets, TLC

VARIABLES root_dir, fs, last, steps

vars == <<root_dir, fs, last, steps>>

(***************************************************************************)
(* Bounds of the model.                                                    *)
(***************************************************************************)
\* number of handler calls in one behaviour
MaxSteps == 2

(***************************************************************************)
(* Python string functions.                                                *)
(***************************************************************************)
SLASH == "/"
DOT == "."

startswith(s, p) == Len(p) <= Len(s) /\ SubSeq(s, 1, Len(p)) = p

endswith(s, p) == Len(p) <= Len(s) /\ SubSeq(s, Len(s) - Len(p) + 1, Len(s)) = p

RECURSIVE lstrip(_, _)
lstrip(s, ch) == IF s # <<>> /\ Head(s) = ch THEN lstrip(Tail(s), ch) ELSE s

RECURSIVE rstrip(_, _)
rstrip(s, ch) ==
    IF s # <<>> /\ s[Len(s)] = ch THEN rstrip(SubSeq(s, 1, Len(s) - 1), ch) ELSE s

strip(s, ch) == rstrip(lstrip(s, ch), ch)

\* index of the last occurrence of ch in s, 0 when there is none (str.rfind + 1)
RECURSIVE rfind(_, _)
rfind(s, ch) ==
    IF s = <<>> THEN 0
    ELSE IF s[Len(s)] = ch THEN Len(s)
    ELSE rfind(SubSeq(s, 1, Len(s) - 1), ch)

\* index of the first occurrence of ch in s, 0 when there is none
RECURSIVE find(_, _)
find(s, ch) ==
    IF s = <<>> THEN 0
    ELSE IF Head(s) = ch THEN 1
    ELSE LET r == find(Tail(s), ch) IN IF r = 0 THEN 0 ELSE r + 1

\* s.split(ch): the sequence of the pieces, <<"">> for the empty string
RECURSIVE split(_, _)
split(s, ch) ==
    LET i == find(s, ch) IN
    IF i = 0 THEN <<s>>
    ELSE <<SubSeq(s, 1, i - 1)>> \o split(SubSeq(s, i + 1, Len(s)), ch)

\* s.rsplit(ch, 1): <<head, tail>>, or <<s>> when ch does not occur
rsplit1(s, ch) ==
    LET i == rfind(s, ch) IN
    IF i = 0 THEN <<s>>
    ELSE <<SubSeq(s, 1, i - 1), SubSeq(s, i + 1, Len(s))>>

\* ch.join(parts)
RECURSIVE join(_, _)
join(parts, ch) ==
    IF parts = <<>> THEN <<>>
    ELSE IF Len(parts) = 1 THEN parts[1]
    ELSE parts[1] \o <<ch>> \o join(Tail(parts), ch)

\* os.path.join(a, b) of posixpath
os_path_join(a, b) ==
    IF startswith(b, <<SLASH>>) THEN b
    ELSE IF a = <<>> \/ endswith(a, <<SLASH>>) THEN a \o b
    ELSE a \o <<SLASH>> \o b

\* os.path.join(a, *parts)
RECURSIVE os_path_join_all(_, _)
os_path_join_all(a, parts) ==
    IF parts = <<>> THEN a
    ELSE os_path_join_all(os_path_join(a, Head(parts)), Tail(parts))

\* os.path.splitext(name) of a name without separator: the extension starts at
\* the last dot, unless only dots precede it
splitext(name) ==
    LET i == rfind(name, DOT)
        lead == Len(name) - Len(lstrip(name, DOT))
    IN IF i > 0 /\ lead < i - 1
       THEN <<SubSeq(name, 1, i - 1), SubSeq(name, i, Len(name))>>
       ELSE <<name, <<>>>>

(***************************************************************************)
(* The HDFS namespace behind pyarrow's HadoopFileSystem (self.fs).         *)
(*                                                                         *)
(* A location is the sequence of the names of a normalised absolute path:  *)
(* Hadoop's Path resolves "." and ".." segments and a relative path is     *)
(* taken from the connection's working directory, Home.  fs maps each      *)
(* existing location to [kind, data, mode].                                *)
(***************************************************************************)
Home == <<SLASH, "home">>

RECURSIVE resolve(_, _)
resolve(names, acc) ==
    IF names = <<>> THEN acc
    ELSE LET n == Head(names) IN
         IF n = <<>> \/ n = <<DOT>> THEN resolve(Tail(names), acc)
         ELSE IF n = <<DOT, DOT>>
              THEN resolve(Tail(names),
                           IF acc = <<>> THEN acc ELSE SubSeq(acc, 1, Len(acc) - 1))
         ELSE resolve(Tail(names), Append(acc, n))

Loc(p) ==
    resolve(split(IF startswith(p, <<SLASH>>) THEN p ELSE Home \o <<SLASH>> \o p,
                  SLASH), <<>>)

\* the absolute path string of a location, as fs.ls and fs.info report it
PathOf(l) == IF l = <<>> THEN <<SLASH>> ELSE <<SLASH>> \o join(l, SLASH)

IsPrefix(a, b) == Len(a) <= Len(b) /\ SubSeq(b, 1, Len(a)) = a

Exists(f, l) == l \in DOMAIN f
IsDir(f, l) == l \in DOMAIN f /\ f[l].kind = "directory"
IsFile(f, l) == l \in DOMAIN f /\ f[l].kind = "file"
Children(f, l) == {x \in DOMAIN f : Len(x) = Len(l) + 1 /\ IsPrefix(l, x)}
Ancestors(l) == {SubSeq(l, 1, k) : k \in 0..(Len(l) - 1)}
\* no ancestor of l is a file
AncestorsOK(f, l) == \A a \in Ancestors(l) : ~IsFile(f, a)

DefaultMode == "umask"
Mode0770 == "0770"

DirEntry == [kind |-> "directory", data |-> <<>>, mode |-> DefaultMode]
FileEntry(bytes) == [kind |-> "file", data |-> bytes, mode |-> DefaultMode]

\* f with l set to entry e, the missing ancestors of l created as directories
Put(f, l, e) ==
    [x \in DOMAIN f \cup Ancestors(l) \cup {l} |->
        IF x = l THEN e ELSE IF x \in DOMAIN f THEN f[x] ELSE DirEntry]

Remove(f, l) == [x \in DOMAIN f \ {l} |-> f[x]]

\* the subtree at src moved to dst
Move(f, src, dst) ==
    LET moved == {x \in DOMAIN f : IsPrefix(src, x)}
        to(x) == dst \o SubSeq(x, Len(src) + 1, Len(x))
        kept == DOMAIN f \ moved
    IN [y \in kept \cup {to(x) : x \in moved} |->
          IF y \in kept THEN f[y]
          ELSE f[CHOOSE x \in moved : to(x) = y]]

(***************************************************************************)
(* Exceptions.  cls is the Python class, status the HTTP status of an      *)
(* HTTPError, kind the condition its message reports.                      *)
(***************************************************************************)
None == "None"

NoExc == [cls |-> None, status |-> 0, kind |-> None]
\* tornado.web.HTTPError(status, message), as hdfs_io.py and hdfs_manager.py raise it
HTTPError(status, kind) == [cls |-> "web.HTTPError", status |-> status, kind |-> kind]
\* tornado.httpclient.HTTPError(code, message), the class hdfs_checkpoints.py imports
ClientHTTPError(status, kind) ==
    [cls |-> "httpclient.HTTPError", status |-> status, kind |-> kind]
\* an OSError/IOError of the backend (pyarrow's ArrowIOError is an IOError)
OSError == [cls |-> "OSError", status |-> 0, kind |-> "OSError"]
\* a backend exception that is no OSError
OtherError == [cls |-> "RuntimeError", status |-> 0, kind |-> "RuntimeError"]

(***************************************************************************)
(* The run of one handler: c.fs is the namespace as the handler has left   *)
(* it so far, c.exc the exception in flight (NoExc: none), c.ret the value *)
(* of the last call that returned one, c.calls the locations handed to the *)
(* backend, c.raised the backend call that raised, c.inj the fault the     *)
(* backend injects during this handler: every call of kind c.inj.site      *)
(* raises c.inj.exc.  A step applied to a run with an exception in flight  *)
(* leaves it as it is.                                                     *)
(***************************************************************************)
NoInj == [site |-> None, exc |-> NoExc]
NoRaise == [site |-> None, cls |-> None, injected |-> FALSE]

Start(f, inj) ==
    [fs |-> f, exc |-> NoExc, ret |-> None, calls |-> {}, raised |-> NoRaise,
     inj |-> inj]

Failed(c) == c.exc # NoExc

\* the statements F after the run c, skipped when c has raised
Then(c, F(_)) == IF Failed(c) THEN c ELSE F(c)

raise(c, e) == IF Failed(c) THEN c ELSE [c EXCEPT !.exc = e]

return(c, v) == IF Failed(c) THEN c ELSE [c EXCEPT !.ret = v]

\* except Exception as e: raise HTTPError(...)
reraise(c, e) == IF Failed(c) THEN [c EXCEPT !.exc = e] ELSE c

\* the backend raises e out of a call of kind site: the injected fault, or the
\* failure the namespace makes the call end in
backend_raise(c, site, e) ==
    [c EXCEPT !.exc = e,
              !.raised = [site |-> site, cls |-> e.cls, injected |-> c.inj.site = site]]

\* a call of kind site reaches the backend; the location l of its path is noted
call(c, site, l) ==
    IF Failed(c) THEN c
    ELSE IF c.inj.site = site
    THEN backend_raise([c EXCEPT !.calls = @ \cup {l}], site, c.inj.exc)
    ELSE [c EXCEPT !.calls = @ \cup {l}]

\* with self.perm_to_403(): the exception that leaves the block
perm_to_403(c) ==
    IF c.exc.cls = "OSError"
    THEN [c EXCEPT !.exc = HTTPError(403, "Permission")]
    ELSE c

nonempty(p) == p # <<>>

(***************************************************************************)
(* Backend calls.  Each returns the run after the call; the value of a     *)
(* query is read from c.fs by path_exists, path_isdir, path_isfile.        *)
(***************************************************************************)
path_exists(c, p) == Exists(c.fs, Loc(p))
path_isdir(c, p) == IsDir(c.fs, Loc(p))
path_isfile(c, p) == IsFile(c.fs, Loc(p))

fs_exists(c, p) == call(c, "exists", Loc(p))
fs_isdir(c, p) == call(c, "isdir", Loc(p))
fs_isfile(c, p) == call(c, "isfile", Loc(p))

\* a call that raises when its location does not exist
must_exist(c, site, l) ==
    IF Failed(c) \/ Exists(c.fs, l) THEN c ELSE backend_raise(c, site, OSError)

\* fs.info(p): raises when p does not exist
fs_info(c, p) == must_exist(call(c, "info", Loc(p)), "info", Loc(p))

\* fs.ls(p): raises when p does not exist
fs_ls(c, p) == must_exist(call(c, "ls", Loc(p)), "ls", Loc(p))

\* a file with the given bytes is created at l or replaces the file at l; the
\* missing ancestors are created; raises when l is a directory or an ancestor
\* is a file
create_at(c, site, l, bytes) ==
    IF Failed(c) THEN c
    ELSE IF IsDir(c.fs, l) \/ ~AncestorsOK(c.fs, l) \/ l = <<>>
    THEN backend_raise(c, site, OSError)
    ELSE [c EXCEPT !.fs = Put(@, l, FileEntry(bytes))]

\* fs.open(p, 'wb')
fs_open_w(c, p) == create_at(call(c, "open_w", Loc(p)), "open_w", Loc(p), <<>>)

\* fs.upload(p, stream): open(p, 'wb') and write the stream's bytes
fs_upload(c, p, bytes) == create_at(call(c, "upload", Loc(p)), "upload", Loc(p), bytes)

append_at(c, l, bytes) ==
    IF Failed(c) THEN c ELSE [c EXCEPT !.fs = [@ EXCEPT ![l].data = @ \o bytes]]

\* fp.write(bytes) on the handle of fs.open(p, 'wb')
fs_write(c, p, bytes) == append_at(call(c, "write", Loc(p)), Loc(p), bytes)

open_r_at(c, l) ==
    IF Failed(c) \/ IsFile(c.fs, l) THEN c ELSE backend_raise(c, "open_r", OSError)

\* fs.open(p, 'rb'): raises unless p is an existing file
fs_open_r(c, p) == open_r_at(call(c, "open_r", Loc(p)), Loc(p))

\* fp.read(n) / fp.readall() on the handle of fs.open(p, 'rb')
fs_read(c, p) == call(c, "read", Loc(p))

\* the bytes of the file at p
data_of(c, p) == c.fs[Loc(p)].data

mkdir_at(c, l) ==
    IF Failed(c) THEN c
    ELSE IF IsFile(c.fs, l) \/ ~AncestorsOK(c.fs, l) THEN backend_raise(c, "mkdir", OSError)
    ELSE IF IsDir(c.fs, l) THEN c
    ELSE [c EXCEPT !.fs = Put(@, l, DirEntry)]

\* fs.mkdir(p): mkdirs, raises when p or an ancestor is a file
fs_mkdir(c, p) == mkdir_at(call(c, "mkdir", Loc(p)), Loc(p))

chmod_at(c, l, mode) ==
    IF Failed(c) THEN c
    ELSE IF ~Exists(c.fs, l) THEN backend_raise(c, "chmod", OSError)
    ELSE [c EXCEPT !.fs = [@ EXCEPT ![l].mode = mode]]

\* fs.chmod(p, mode): raises when p does not exist
fs_chmod(c, p, mode) == chmod_at(call(c, "chmod", Loc(p)), Loc(p), mode)

\* where HDFS rename puts s for destination d: inside d when d is a directory
rename_target(f, s, d) == IF IsDir(f, d) /\ s # <<>> THEN Append(d, s[Len(s)]) ELSE d

rename_to(c, s, d) ==
    IF \/ ~Exists(c.fs, s) \/ s = <<>> \/ d = <<>>
       \/ IsPrefix(s, d)
       \/ Exists(c.fs, d)
       \/ ~IsDir(c.fs, SubSeq(d, 1, Len(d) - 1))
    THEN backend_raise(c, "rename", OSError)
    ELSE [c EXCEPT !.fs = Move(@, s, d)]

rename_at(c, s, d) ==
    IF Failed(c) THEN c ELSE rename_to(c, s, rename_target(c.fs, s, d))

\* fs.rename(src, dst): HDFS rename.  Raises when src does not exist, when the
\* target lies inside src, exists, or has no directory as parent
fs_rename(c, src, dst) ==
    rename_at(call(call(c, "rename", Loc(src)), "rename", Loc(dst)), Loc(src), Loc(dst))

delete_at(c, l) ==
    IF Failed(c) THEN c
    ELSE IF ~Exists(c.fs, l) \/ Children(c.fs, l) # {} \/ l = <<>>
    THEN backend_raise(c, "delete", OSError)
    ELSE [c EXCEPT !.fs = Remove(@, l)]

\* fs.delete(p): not recursive, raises when p is absent or a directory with
\* children
fs_delete(c, p) == delete_at(call(c, "delete", Loc(p)), Loc(p))

(***************************************************************************)
(* Content conversions.  A text is a sequence of code points, file data a  *)
(* sequence of bytes.                                                      *)
(***************************************************************************)
Conv(ok, v) == [ok |-> ok, v |-> v]

\* str.encode('utf8'): a surrogate code point cannot be encoded
RECURSIVE utf8_encode(_)
utf8_encode(text) ==
    IF text = <<>> THEN Conv(TRUE, <<>>)
    ELSE LET cp == Head(text)
             rest == utf8_encode(Tail(text))
             here == IF cp < 128 THEN <<cp>>
                     ELSE IF cp < 2048 THEN <<192 + (cp \div 64), 128 + (cp % 64)>>
                     ELSE <<224 + (cp \div 4096), 128 + ((cp \div 64) % 64),
                            128 + (cp % 64)>>
         IN IF (cp >= 55296 /\ cp <= 57343) \/ ~rest.ok THEN Conv(FALSE, <<>>)
            ELSE Conv(TRUE, here \o rest.v)

\* bytes.decode('utf8') of one-, two- and three-byte sequences
RECURSIVE utf8_decode(_)
utf8_decode(bytes) ==
    IF bytes = <<>> THEN Conv(TRUE, <<>>)
    ELSE LET b == Head(bytes)
             n == IF b < 128 THEN 1
                  ELSE IF b >= 194 /\ b < 224 THEN 2
                  ELSE IF b >= 224 /\ b < 240 THEN 3 ELSE 0
             cont(i) == i <= Len(bytes) /\ bytes[i] >= 128 /\ bytes[i] < 192
         IN IF n = 0 \/ (n >= 2 /\ ~cont(2)) \/ (n = 3 /\ ~cont(3))
            THEN Conv(FALSE, <<>>)
            ELSE LET cp == IF n = 1 THEN b
                           ELSE IF n = 2 THEN (b - 192) * 64 + (bytes[2] - 128)
                           ELSE (b - 224) * 4096 + (bytes[2] - 128) * 64
                                + (bytes[3] - 128)
                     rest == utf8_decode(SubSeq(bytes, n + 1, Len(bytes)))
                 IN IF ~rest.ok \/ (n = 3 /\ (cp < 2048 \/ (cp >= 55296 /\ cp <= 57343)))
                    THEN Conv(FALSE, <<>>)
                    ELSE Conv(TRUE, <<cp>> \o rest.v)

\* str.encode('ascii')
ascii_encode(text) ==
    IF \E i \in 1..Len(text) : text[i] >= 128
    THEN Conv(FALSE, <<>>)
    ELSE Conv(TRUE, text)

\* the value of a character of the base64 alphabet, -1 for any other
b64_value(ch) ==
    IF ch >= 65 /\ ch <= 90 THEN ch - 65
    ELSE IF ch >= 97 /\ ch <= 122 THEN ch - 71
    ELSE IF ch >= 48 /\ ch <= 57 THEN ch + 4
    ELSE IF ch = 43 THEN 62
    ELSE IF ch = 47 THEN 63
    ELSE -1

b64_char(v) ==
    IF v < 26 THEN v + 65
    ELSE IF v < 52 THEN v + 71
    ELSE IF v < 62 THEN v - 4
    ELSE IF v = 62 THEN 43 ELSE 47

in_alphabet(ch) == b64_value(ch) >= 0

RECURSIVE b64_quads(_)
b64_quads(vs) ==
    IF Len(vs) < 4 THEN <<>>
    ELSE <<vs[1] * 4 + (vs[2] \div 16),
           (vs[2] % 16) * 16 + (vs[3] \div 4),
           (vs[3] % 4) * 64 + vs[4]>> \o b64_quads(SubSeq(vs, 5, Len(vs)))

\* base64.decodebytes(b) on unpadded input: binascii.a2b_base64 skips every
\* character outside the alphabet and raises only when the characters of the
\* alphabet leave bits over, that is when their number is no multiple of 4
decodebytes(b) ==
    LET data == SelectSeq(b, in_alphabet)
        vs == [i \in 1..Len(data) |-> b64_value(data[i])]
    IN IF Len(data) % 4 # 0 THEN Conv(FALSE, <<>>)
       ELSE Conv(TRUE, b64_quads(vs))

\* base64.encodebytes(bytes).decode('ascii'): groups of three bytes, the last
\* group padded with "=", a newline at the end
RECURSIVE b64_groups(_)
b64_groups(bytes) ==
    IF bytes = <<>> THEN <<>>
    ELSE LET b1 == bytes[1]
             b2 == IF Len(bytes) >= 2 THEN bytes[2] ELSE 0
             b3 == IF Len(bytes) >= 3 THEN bytes[3] ELSE 0
             c1 == b64_char(b1 \div 4)
             c2 == b64_char((b1 % 4) * 16 + (b2 \div 16))
             c3 == IF Len(bytes) >= 2 THEN b64_char((b2 % 16) * 4 + (b3 \div 64)) ELSE 61
             c4 == IF Len(bytes) >= 3 THEN b64_char(b3 % 64) ELSE 61
         IN <<c1, c2, c3, c4>> \o b64_groups(SubSeq(bytes, 4, Len(bytes)))

encodebytes(bytes) == IF bytes = <<>> THEN <<>> ELSE b64_groups(bytes) \o <<10>>

\* nbformat.write(nb, fp): the notebook as JSON text, here "{" cells "}";
\* raises for a value without cells
nb_write(nb) ==
    IF "cells" \notin DOMAIN nb THEN Conv(FALSE, <<>>)
    ELSE Conv(TRUE, <<123>> \o nb.cells \o <<125>>)

\* nbformat.reads(bytes, as_version): raises unless the bytes are a notebook
nb_reads(bytes) ==
    IF Len(bytes) >= 2 /\ bytes[1] = 123 /\ bytes[Len(bytes)] = 125
    THEN Conv(TRUE, [cells |-> SubSeq(bytes, 2, Len(bytes) - 1)])
    ELSE Conv(FALSE, [cells |-> <<>>])

(***************************************************************************)
(* HDFSManagerMixin: path mapping.                                         *)
(***************************************************************************)
\* notebook.utils.to_os_path(path, root)
to_os_path(path, root) ==
    os_path_join_all(root, SelectSeq(split(strip(path, SLASH), SLASH), nonempty))

\* notebook.utils.to_api_path(os_path, root)
to_api_path(os_path, root) ==
    LET p == IF startswith(os_path, root)
             THEN SubSeq(os_path, Len(root) + 1, Len(os_path)) ELSE os_path
    IN join(SelectSeq(split(strip(p, SLASH), SLASH), nonempty), SLASH)

\* the value _to_fs_path returns
fs_path_of(path) == to_os_path(path, root_dir)

\* _to_fs_path(path): raises 404 when the joined path does not start with root_dir
to_fs_path(c, path) ==
    IF startswith(fs_path_of(path), root_dir) THEN c
    ELSE raise(c, HTTPError(404, "OutOfRoot"))

\* _to_api_path(fs_path)
api_path_of(p) == to_api_path(p, root_dir)

\* any(part.startswith('.') for part in parts)
any_dotted(parts) == \E i \in 1..Len(parts) : startswith(parts[i], <<DOT>>)

\* HDFSContentsManager.is_hidden(path), the value
is_hidden(path) == any_dotted(split(fs_path_of(path), SLASH))

(***************************************************************************)
(* HDFSManagerMixin: validation, save and read primitives.                 *)
(***************************************************************************)
\* _ensure_path_is_valid(path, type, enforce_exists)
ensure_path_is_valid(c, path, type, enforce_exists) ==
    Then(to_fs_path(c, path), LAMBDA c0 :
      IF is_hidden(path) THEN raise(c0, HTTPError(400, "HiddenPath"))
      ELSE Then(fs_exists(c0, fs_path_of(path)), LAMBDA c1 :
        IF path_exists(c1, fs_path_of(path))
        THEN IF type = None THEN c1
             ELSE IF type \in {"file", "notebook"}
             THEN Then(fs_isdir(c1, fs_path_of(path)), LAMBDA c2 :
                    IF path_isdir(c2, fs_path_of(path))
                    THEN raise(c2, HTTPError(400, "WrongKind"))
                    ELSE c2)
             ELSE Then(fs_isfile(c1, fs_path_of(path)), LAMBDA c2 :
                    IF path_isfile(c2, fs_path_of(path))
                    THEN raise(c2, HTTPError(400, "WrongKind"))
                    ELSE c2)
        ELSE IF enforce_exists THEN raise(c1, HTTPError(400, "NotFound"))
        ELSE c1))

\* _save_directory(path, mode=0o0770)
save_directory(c, path) ==
    Then(to_fs_path(c, path), LAMBDA c0 :
      IF is_hidden(path) THEN raise(c0, HTTPError(400, "HiddenPath"))
      ELSE Then(fs_exists(c0, fs_path_of(path)), LAMBDA c1 :
        IF path_exists(c1, fs_path_of(path))
        THEN Then(fs_isfile(c1, fs_path_of(path)), LAMBDA c2 :
               IF path_isfile(c2, fs_path_of(path))
               THEN raise(c2, HTTPError(400, "WrongKind"))
               ELSE raise(c2, HTTPError(400, "AlreadyExists")))
        ELSE perm_to_403(fs_chmod(fs_mkdir(c1, fs_path_of(path)),
                                  fs_path_of(path), Mode0770))))

\* ascii bytes to the decoded bytes
decode_ascii(a) == IF a.ok THEN decodebytes(a.v) ELSE a

\* the bytes _save_file writes: content.encode('utf8') for 'text',
\* decodebytes(content.encode('ascii')) for 'base64'
file_bytes(content, format) ==
    IF format = "text" THEN utf8_encode(content)
    ELSE decode_ascii(ascii_encode(content))

\* _save_file: the write, b the converted content
write_file(c, path, b) ==
    IF ~b.ok THEN raise(c, HTTPError(400, "Encoding"))
    ELSE Then(c, LAMBDA c0 :
           perm_to_403(
             Then(fs_open_w(c0, fs_path_of(path)), LAMBDA c1 :
               reraise(fs_write(c1, fs_path_of(path), b.v), HTTPError(400, "Write")))))

\* _save_file(path, content, format)
save_file(c, path, content, format) ==
    IF format \notin {"text", "base64"} THEN raise(c, HTTPError(400, "BadFormat"))
    ELSE write_file(ensure_path_is_valid(c, path, "file", FALSE), path,
                    file_bytes(content, format))

\* _save_notebook: the staging file is written and uploaded, b its bytes;
\* every exception of the two steps is raised again as 400
upload_notebook(c, path, b) ==
    IF ~b.ok THEN raise(c, HTTPError(400, "Write"))
    ELSE Then(c, LAMBDA c1 :
           reraise(perm_to_403(fs_upload(c1, fs_path_of(path), b.v)),
                   HTTPError(400, "Write")))

\* _save_notebook(path, nb)
save_notebook(c, path, nb) ==
    upload_notebook(ensure_path_is_valid(c, path, "file", FALSE), path, nb_write(nb))

\* nbformat.reads of what was read, raised again as 400 when it fails
parse_notebook(c, nb) ==
    IF nb.ok THEN return(c, nb.v) ELSE raise(c, HTTPError(400, "Unreadable"))

\* _read_notebook(path)
read_notebook(c, path) ==
    Then(ensure_path_is_valid(c, path, "file", TRUE), LAMBDA c0 :
      perm_to_403(
        Then(fs_open_r(c0, fs_path_of(path)), LAMBDA c1 :
          Then(reraise(fs_read(c1, fs_path_of(path)), HTTPError(400, "Unreadable")),
               LAMBDA c2 : parse_notebook(c2, nb_reads(data_of(c2, fs_path_of(path))))))))

\* _read_file: the bytes read, decoded as text t or encoded as base64; the
\* value is <<content, format>>
decode_file(c, bytes, t, format) ==
    IF t.ok THEN return(c, <<t.v, "text">>)
    ELSE IF format = "text" THEN raise(c, HTTPError(400, "Unreadable"))
    ELSE return(c, <<encodebytes(bytes), "base64">>)

\* _read_file(path, format)
read_file(c, path, format) ==
    Then(ensure_path_is_valid(c, path, "file", TRUE), LAMBDA c0 :
      perm_to_403(
        Then(fs_open_r(c0, fs_path_of(path)), LAMBDA c1 :
          Then(reraise(fs_read(c1, fs_path_of(path)), HTTPError(400, "Unreadable")),
               LAMBDA c2 : decode_file(c2, data_of(c2, fs_path_of(path)),
                                       utf8_decode(data_of(c2, fs_path_of(path))),
                                       format)))))

(***************************************************************************)
(* HDFSCheckpoints.                                                        *)
(***************************************************************************)
\* checkpoint_dir, the trait's default
checkpoint_dir == <<DOT, "ipynb_checkpoints">>

\* the fixed id of create_checkpoint and list_checkpoints
CHECKPOINT == "checkpoint"

\* copy chunk size of __fs_copy
chunk_size == 65536

\* checkpoint_path: parent, of ('/' + path).rsplit('/', 1), stripped
cp_parent(path) == strip(rsplit1(<<SLASH>> \o strip(path, SLASH), SLASH)[1], SLASH)

\* checkpoint_path: name, of ('/' + path).rsplit('/', 1)
cp_name(path) == rsplit1(<<SLASH>> \o strip(path, SLASH), SLASH)[2]

\* checkpoint_path: "{name}-{checkpoint_id}{ext}" of splitext(name)
cp_filename(se, checkpoint_id) == se[1] \o <<"-", checkpoint_id>> \o se[2]

\* checkpoint_path: cp_dir
checkpoint_dir_of(path) == os_path_join(cp_parent(path), checkpoint_dir)

\* the value checkpoint_path(checkpoint_id, path) returns: cp_path
checkpoint_path_of(checkpoint_id, path) ==
    os_path_join(checkpoint_dir_of(path),
                 cp_filename(splitext(cp_name(path)), checkpoint_id))

\* checkpoint_path(checkpoint_id, path), the calls it makes: under perm_to_403,
\* self.fs.exists(fs_cp_dir) and self.fs.isdir(fs_cp_dir)
checkpoint_path(c, checkpoint_id, path) ==
    Then(to_fs_path(c, checkpoint_dir_of(path)), LAMBDA c0 :
      perm_to_403(
        Then(fs_exists(c0, fs_path_of(checkpoint_dir_of(path))), LAMBDA c1 :
          IF path_exists(c1, fs_path_of(checkpoint_dir_of(path)))
          THEN fs_isdir(c1, fs_path_of(checkpoint_dir_of(path)))
          ELSE c1)))

\* checkpoint_model(checkpoint_id, path): the info dict, here its id
checkpoint_model(c, checkpoint_id, path) ==
    return(fs_info(to_fs_path(c, path), fs_path_of(path)), [id |-> checkpoint_id])

\* out = f2.read(chunk_size) with pos bytes read before
chunk(data, pos) ==
    SubSeq(data, pos + 1,
           IF pos + chunk_size < Len(data) THEN pos + chunk_size ELSE Len(data))

\* the while loop of __fs_copy, pos bytes of the source already copied
RECURSIVE copy_loop(_, _, _, _)
copy_loop(c, fs_src, fs_dst, pos) ==
    Then(fs_read(c, fs_src), LAMBDA c1 :
      IF Len(chunk(data_of(c1, fs_src), pos)) = 0 THEN c1
      ELSE copy_loop(fs_write(c1, fs_dst, chunk(data_of(c1, fs_src), pos)),
                     fs_src, fs_dst, pos + Len(chunk(data_of(c1, fs_src), pos))))

\* __fs_copy(fs_src, fs_dst, mode=0o0770, chunk_size=2**16)
fs_copy(c, fs_src, fs_dst) ==
    fs_chmod(copy_loop(fs_open_r(fs_open_w(c, fs_dst), fs_src), fs_src, fs_dst, 0),
             fs_dst, Mode0770)

\* create_checkpoint(contents_mgr, path)
create_checkpoint(c, path) ==
    checkpoint_model(
      fs_copy(to_fs_path(checkpoint_path(to_fs_path(c, path), CHECKPOINT, path),
                         checkpoint_path_of(CHECKPOINT, path)),
              fs_path_of(path), fs_path_of(checkpoint_path_of(CHECKPOINT, path))),
      CHECKPOINT, checkpoint_path_of(CHECKPOINT, path))

\* restore_checkpoint(contents_mgr, checkpoint_id, path)
restore_checkpoint(c, checkpoint_id, path) ==
    fs_copy(to_fs_path(checkpoint_path(to_fs_path(c, path), checkpoint_id, path),
                       checkpoint_path_of(checkpoint_id, path)),
            fs_path_of(checkpoint_path_of(checkpoint_id, path)), fs_path_of(path))

\* the path rename_checkpoint hands to the backend for checkpoint path cp_path:
\* self._to_api_path(cp_path)
rename_arg(cp_path) == api_path_of(cp_path)

\* rename_checkpoint(checkpoint_id, old_path, new_path)
rename_checkpoint(c, checkpoint_id, old_path, new_path) ==
    Then(fs_exists(checkpoint_path(checkpoint_path(c, checkpoint_id, old_path),
                                   checkpoint_id, new_path),
                   rename_arg(checkpoint_path_of(checkpoint_id, old_path))),
         LAMBDA c1 :
           IF path_exists(c1, rename_arg(checkpoint_path_of(checkpoint_id, old_path)))
           THEN perm_to_403(
                  fs_rename(c1, rename_arg(checkpoint_path_of(checkpoint_id, old_path)),
                            rename_arg(checkpoint_path_of(checkpoint_id, new_path))))
           ELSE c1)

\* delete_checkpoint without its test that the checkpoint exists
delete_checkpoint_unchecked(c, checkpoint_id, path) ==
    perm_to_403(
      fs_delete(to_fs_path(checkpoint_path(c, checkpoint_id, path),
                           checkpoint_path_of(checkpoint_id, path)),
                fs_path_of(checkpoint_path_of(checkpoint_id, path))))

\* delete_checkpoint(checkpoint_id, path)
delete_checkpoint(c, checkpoint_id, path) ==
    Then(fs_exists(to_fs_path(checkpoint_path(c, checkpoint_id, path),
                              checkpoint_path_of(checkpoint_id, path)),
                   fs_path_of(checkpoint_path_of(checkpoint_id, path))),
         LAMBDA c1 :
           IF ~path_exists(c1, fs_path_of(checkpoint_path_of(checkpoint_id, path)))
           THEN raise(c1, ClientHTTPError(404, "NotFound"))
           ELSE perm_to_403(
                  fs_delete(c1, fs_path_of(checkpoint_path_of(checkpoint_id, path)))))

\* [self.checkpoint_model(checkpoint_id, cp_path)]
one_record(c) == return(c, <<c.ret>>)

\* list_checkpoints that never finds the checkpoint
list_checkpoints_none(c, path) ==
    return(to_fs_path(checkpoint_path(c, CHECKPOINT, path),
                      checkpoint_path_of(CHECKPOINT, path)), <<>>)

\* list_checkpoints(path): the list of the info dicts
list_checkpoints(c, path) ==
    Then(fs_exists(to_fs_path(checkpoint_path(c, CHECKPOINT, path),
                              checkpoint_path_of(CHECKPOINT, path)),
                   fs_path_of(checkpoint_path_of(CHECKPOINT, path))),
         LAMBDA c1 :
           IF ~path_exists(c1, fs_path_of(checkpoint_path_of(CHECKPOINT, path)))
           THEN return(c1, <<>>)
           ELSE one_record(checkpoint_model(c1, CHECKPOINT,
                                            checkpoint_path_of(CHECKPOINT, path))))

(***************************************************************************)
(* HDFSContentsManager.  A model is a record; a field that is None in the  *)
(* code holds "None" (format, mimetype, type, message) or the empty        *)
(* sequence (content: <<>> is None, <<v>> is the content v).               *)
(***************************************************************************)
IPYNB == <<DOT, "ipynb">>

\* dir_exists(path): the run, its value in ret
dir_exists(c, path) ==
    Then(fs_exists(to_fs_path(c, path), fs_path_of(path)), LAMBDA c1 :
      IF ~path_exists(c1, fs_path_of(path)) THEN return(c1, FALSE)
      ELSE return(fs_isdir(c1, fs_path_of(path)), path_isdir(c1, fs_path_of(path))))

\* file_exists(path): the run, its value in ret
file_exists(c, path) ==
    Then(fs_exists(to_fs_path(c, path), fs_path_of(path)), LAMBDA c1 :
      IF ~path_exists(c1, fs_path_of(path)) THEN return(c1, FALSE)
      ELSE return(fs_isfile(c1, fs_path_of(path)), path_isfile(c1, fs_path_of(path))))

\* ContentsManager.exists(path): file_exists(path) or dir_exists(path)
exists(c, path) ==
    Then(file_exists(c, path), LAMBDA c1 :
      IF c1.ret THEN c1 ELSE dir_exists(c1, path))

\* mimetypes.guess_type(path)[0]
guess_type(path) ==
    IF endswith(path, <<DOT, "txt">>) THEN "text/plain" ELSE None

\* path.rsplit('/', 1)[-1]
last_part(path) == rsplit1(path, SLASH)[Len(rsplit1(path, SLASH))]

\* the model __base_model builds from info, the entry of the path
model_of(path, info) ==
    [name |-> last_part(path),
     path |-> path,
     content |-> <<>>,
     format |-> None,
     mimetype |-> None,
     type |-> info.kind,
     writable |-> info.mode \in {DefaultMode, Mode0770},
     message |-> None]

\* __base_model(path, type): the common base of a model
base_model(c, path, type) ==
    Then(fs_info(ensure_path_is_valid(c, path, type, TRUE), fs_path_of(path)),
         LAMBDA c1 : return(c1, model_of(path, c1.fs[Loc(fs_path_of(path))])))

\* a set as a sequence, in the order the backend lists it
RECURSIVE listing(_)
listing(S) ==
    IF S = {} THEN <<>>
    ELSE <<CHOOSE y \in S : TRUE>> \o listing(S \ {CHOOSE y \in S : TRUE})

\* ContentsManager.should_list(name): no name of the model matches hide_globs
should_list(name) == TRUE

\* __get_file: the mimetype of the model once the content is read
default_mime(mimetype, format) ==
    IF mimetype # None THEN mimetype
    ELSE IF format = "text" THEN "text/plain"
    ELSE "application/octet-stream"

\* __get_file: model.update(content=content, format=format)
file_model(model, content, format) ==
    [model EXCEPT !.mimetype = default_mime(@, format),
                  !.content = <<content>>,
                  !.format = format]

\* __get_file(path, content, format)
get_file(c, path, content, format) ==
    Then(base_model(c, path, "file"), LAMBDA c1 :
      IF ~content THEN return(c1, [c1.ret EXCEPT !.mimetype = guess_type(path)])
      ELSE Then(read_file(c1, path, format), LAMBDA c2 :
             return(c2, file_model([c1.ret EXCEPT !.mimetype = guess_type(path)],
                                   c2.ret[1], c2.ret[2]))))

\* __get_notebook that reads the notebook whether content is asked for or not
get_notebook_read(c, path, content) ==
    Then(base_model(c, path, "file"), LAMBDA c1 :
      Then(read_notebook(c1, path), LAMBDA c2 :
        return(c2, [c1.ret EXCEPT !.type = "notebook",
                                  !.content = <<c2.ret>>,
                                  !.format = "json"])))

\* __get_notebook(path, content)
get_notebook(c, path, content) ==
    Then(base_model(c, path, "file"), LAMBDA c1 :
      IF ~content THEN return(c1, [c1.ret EXCEPT !.type = "notebook"])
      ELSE Then(read_notebook(c1, path), LAMBDA c2 :
             return(c2, [c1.ret EXCEPT !.type = "notebook",
                                       !.content = <<c2.ret>>,
                                       !.format = "json"])))

\* get that lets the type of the caller stand for a path that ends in .ipynb
resolved_type_as_given(c, path, type) ==
    IF type # None THEN type
    ELSE IF endswith(path, IPYNB) THEN "notebook"
    ELSE c.fs[Loc(fs_path_of(path))].kind

\* get: the type it dispatches on
resolved_type(c, path, type) ==
    IF endswith(path, IPYNB) THEN "notebook"
    ELSE IF type # None THEN type
    ELSE c.fs[Loc(fs_path_of(path))].kind

\* get: if not type, the type is inferred from fs.info
infer_type(c, path) ==
    Then(fs_exists(to_fs_path(c, path), fs_path_of(path)), LAMBDA c1 :
      IF ~path_exists(c1, fs_path_of(path))
      THEN raise(c1, HTTPError(400, "NotFound"))
      ELSE fs_info(c1, fs_path_of(path)))

\* get(path, content=False) of a child in a directory listing, of type t: a
\* directory child is built without its own listing
child_model(c, path, t) ==
    IF t = "directory" THEN base_model(c, path, "directory")
    ELSE IF t = "notebook" THEN get_notebook(c, path, FALSE)
    ELSE get_file(c, path, FALSE, None)

\* self.get(path='%s/%s' % (path, name), content=False) in __get_dir
get_child(c, path) ==
    Then(infer_type(c, path), LAMBDA c1 :
      child_model(c1, path, resolved_type(c1, path, None)))

\* the loop of __get_dir over fs.ls(fs_path): the models gathered in ret
RECURSIVE get_children(_, _, _)
get_children(c, path, subpaths) ==
    IF subpaths = <<>> THEN c
    ELSE IF should_list(last_part(strip(Head(subpaths), SLASH)))
            /\ ~is_hidden(Head(subpaths))
    THEN Then(get_child(c, path \o <<SLASH>> \o last_part(strip(Head(subpaths), SLASH))),
              LAMBDA c1 : get_children(return(c1, c.ret \o <<c1.ret>>), path,
                                       Tail(subpaths)))
    ELSE get_children(c, path, Tail(subpaths))

\* fs.ls(fs_path): the paths of the children
ls_of(c, p) == listing({PathOf(x) : x \in Children(c.fs, Loc(p))})

\* __get_dir(path, content)
get_dir(c, path, content) ==
    Then(base_model(c, path, "directory"), LAMBDA c1 :
      IF ~content THEN c1
      ELSE Then(fs_ls(c1, fs_path_of(path)), LAMBDA c2 :
             Then(get_children(return(c2, <<>>), path, ls_of(c2, fs_path_of(path))),
                  LAMBDA c3 : return(c3, [c1.ret EXCEPT !.content = <<c3.ret>>,
                                                        !.format = "json"]))))

\* get: the dispatch on the type t
get_as(c, path, content, format, t) ==
    IF t = "directory" THEN get_dir(c, path, content)
    ELSE IF t = "notebook" THEN get_notebook(c, path, content)
    ELSE get_file(c, path, content, format)

\* get(path, content, type, format)
get(c, path, content, type, format) ==
    Then(IF type # None THEN c ELSE infer_type(c, path), LAMBDA c1 :
      get_as(c1, path, content, format, resolved_type(c1, path, type)))

\* model.get('format')
model_format(model) == IF "format" \in DOMAIN model THEN model.format ELSE None

\* save without its checkpoint step
ensure_checkpoint_skipped(c, path) == c

\* save: the checkpoint step after a notebook is written.  One checkpoint
\* should always exist for notebooks
ensure_checkpoint(c, path) ==
    Then(list_checkpoints(c, path), LAMBDA c1 :
      IF Len(c1.ret) = 0 THEN create_checkpoint(c1, path) ELSE c1)

\* save: the dispatch on model['type'] inside try
save_dispatch(c, model, path) ==
    IF model.type = "notebook"
    THEN ensure_checkpoint(save_notebook(c, path, model.content), path)
    ELSE IF model.type = "file"
    THEN save_file(c, path, model.content, model_format(model))
    ELSE IF model.type = "directory" THEN save_directory(c, path)
    ELSE raise(c, HTTPError(400, "UnhandledType"))

\* save with one except clause for every exception
save_except_all(c) ==
    IF ~Failed(c) THEN c ELSE [c EXCEPT !.exc = HTTPError(500, "InternalSave")]

\* save: except web.HTTPError: raise / except Exception: raise 500
save_except(c) ==
    IF ~Failed(c) \/ c.exc.cls = "web.HTTPError" THEN c
    ELSE [c EXCEPT !.exc = HTTPError(500, "InternalSave")]

\* save(model, path)
save(c, model, path) ==
    Then(ensure_path_is_valid(c, path, None, FALSE), LAMBDA c1 :
      IF "type" \notin DOMAIN model THEN raise(c1, HTTPError(400, "MissingField"))
      ELSE IF "content" \notin DOMAIN model /\ model.type # "directory"
      THEN raise(c1, HTTPError(400, "MissingField"))
      ELSE get(save_except(save_dispatch(c1, model, path)), path, FALSE, None, None))

\* delete_file: the branch after the checks
delete_checked(c, path) ==
    Then(fs_isfile(c, fs_path_of(path)), LAMBDA c2 :
      IF path_isfile(c2, fs_path_of(path))
      THEN perm_to_403(fs_delete(c2, fs_path_of(path)))
      ELSE Then(fs_ls(c2, fs_path_of(path)), LAMBDA c3 :
             IF Len(ls_of(c3, fs_path_of(path))) > 0
             THEN raise(c3, HTTPError(400, "NotEmpty"))
             ELSE perm_to_403(fs_delete(c3, fs_path_of(path)))))

\* delete_file(path)
delete_file(c, path) ==
    Then(exists(c, path), LAMBDA c1 :
      IF ~c1.ret THEN raise(c1, HTTPError(404, "NotFound"))
      ELSE IF is_hidden(path) THEN raise(c1, HTTPError(400, "HiddenPath"))
      ELSE delete_checked(c1, path))

\* rename_file without its test that new_path is free
rename_unchecked(c, old_path, new_path) ==
    IF is_hidden(new_path) THEN raise(c, HTTPError(400, "HiddenPath"))
    ELSE perm_to_403(fs_rename(c, fs_path_of(old_path), fs_path_of(new_path)))

\* rename_file: the part after the checks of old_path
rename_checked(c, old_path, new_path) ==
    Then(exists(c, new_path), LAMBDA c2 :
      IF c2.ret THEN raise(c2, HTTPError(404, "Conflict"))
      ELSE IF is_hidden(new_path) THEN raise(c2, HTTPError(400, "HiddenPath"))
      ELSE perm_to_403(fs_rename(c2, fs_path_of(old_path), fs_path_of(new_path))))

\* rename_file(old_path, new_path)
rename_file(c, old_path, new_path) ==
    Then(exists(c, old_path), LAMBDA c1 :
      IF ~c1.ret THEN raise(c1, HTTPError(404, "NotFound"))
      ELSE IF is_hidden(old_path) THEN raise(c1, HTTPError(400, "HiddenPath"))
      ELSE rename_checked(c1, old_path, new_path))

(***************************************************************************)
(* Inputs of the model.                                                    *)
(***************************************************************************)
D == <<"d">>
N_IPYNB == <<"n">> \o IPYNB

\* "d", "d/n.ipynb", "/d/f" and "../n.ipynb"
ApiPaths ==
    { D,
      D \o <<SLASH>> \o N_IPYNB,
      <<SLASH>> \o D \o <<SLASH, "f">>,
      <<DOT, DOT, SLASH>> \o N_IPYNB }

\* root_dir: the working directory of the connection (the default), another
\* directory, a directory with a dotted name
Roots == {Home, <<SLASH, "srv">>, <<SLASH, DOT, "nb">>}

NbA == [cells |-> <<65>>]
NbB == [cells |-> <<66>>]

\* the models save is called with: two notebooks; files "A#" as text, "####"
\* and "AA" as base64, a lone surrogate as text, a file without format; a
\* directory; a model without type, one without content, one of an unhandled
\* type
Models ==
    { [type |-> "notebook", content |-> NbA],
      [type |-> "notebook", content |-> NbB],
      [type |-> "file", format |-> "text", content |-> <<65, 35>>],
      [type |-> "file", format |-> "base64", content |-> <<35, 35, 35, 35>>],
      [type |-> "file", format |-> "base64", content |-> <<65, 65>>],
      [type |-> "file", format |-> "text", content |-> <<55296>>],
      [type |-> "file", content |-> <<65>>],
      [type |-> "directory"],
      [content |-> <<65>>],
      [type |-> "file"],
      [type |-> "symlink", content |-> <<65>>] }

CheckpointIds == {CHECKPOINT}

Injections(sites) ==
    {NoInj} \cup {[site |-> s, exc |-> e] : s \in sites, e \in {OSError, OtherError}}

\* the backend calls that move data or change the namespace, per handler
CopySites == {"open_w", "write", "open_r", "read", "chmod"}
ReadSites == {"open_r", "read"}
SaveSites(model) ==
    IF model = [type |-> "directory"] THEN {"mkdir", "chmod"}
    ELSE IF model = [type |-> "notebook", content |-> NbA] THEN {"upload"} \cup CopySites
    ELSE IF model = [type |-> "file", format |-> "text", content |-> <<65, 35>>]
    THEN {"open_w", "write"}
    ELSE {}

(***************************************************************************)
(* The state machine.  A handler runs whole in one step and leaves its     *)
(* outcome in last; the caller takes the outcome before the next call.     *)
(***************************************************************************)
NoCall == [op |-> None]

Outcome(op, args, c, has_value) ==
    [op |-> op, args |-> args, exc |-> c.exc,
     ret |-> IF has_value /\ ~Failed(c) THEN <<c.ret>> ELSE <<>>,
     calls |-> c.calls, raised |-> c.raised]

Ready == last = NoCall /\ steps < MaxSteps

Done(op, args, c, has_value) ==
    /\ fs' = c.fs
    /\ last' = Outcome(op, args, c, has_value)
    /\ steps' = steps + 1
    /\ UNCHANGED root_dir

\* the namespace with the root directory and the working directory alone
EmptyFs ==
    [l \in Ancestors(Loc(root_dir)) \cup {Loc(root_dir), Loc(Home)} |-> DirEntry]

\* what a save of the notebook NbA at "d/n.ipynb" leaves in the empty namespace:
\* the notebook and its checkpoint; nothing under a root that makes the path
\* hidden
SavedFs ==
    IF is_hidden(D \o <<SLASH>> \o N_IPYNB) THEN EmptyFs
    ELSE Put(Put(EmptyFs, Loc(fs_path_of(D \o <<SLASH>> \o N_IPYNB)),
                 FileEntry(nb_write(NbA).v)),
             Loc(fs_path_of(checkpoint_path_of(CHECKPOINT, D \o <<SLASH>> \o N_IPYNB))),
             [FileEntry(nb_write(NbA).v) EXCEPT !.mode = Mode0770])

\* the namespaces the manager is started on: the storage outlives the manager,
\* so it is empty or holds what an earlier manager saved
StoredFs == {EmptyFs, SavedFs}

Init ==
    /\ root_dir \in Roots
    /\ fs \in StoredFs
    /\ last = NoCall
    /\ steps = 0

Get ==
    /\ Ready
    /\ \E path \in ApiPaths, content \in BOOLEAN,
          type \in {None, "file", "directory", "notebook"} :
       \E format \in (IF content THEN {None, "text"} ELSE {None}) :
       \E inj \in Injections(IF content /\ format = None THEN ReadSites ELSE {}) :
          Done("get", [path |-> path, content |-> content, type |-> type,
                       format |-> format],
               get(Start(fs, inj), path, content, type, format), TRUE)

Save ==
    /\ Ready
    /\ \E path \in ApiPaths, model \in Models :
       \E inj \in Injections(SaveSites(model)) :
          Done("save", [path |-> path, model |-> model],
               save(Start(fs, inj), model, path), TRUE)

DeleteFile ==
    /\ Ready
    /\ \E path \in ApiPaths, inj \in Injections({"delete"}) :
          Done("delete_file", [path |-> path],
               delete_file(Start(fs, inj), path), FALSE)

RenameFile ==
    /\ Ready
    /\ \E old_path \in ApiPaths, new_path \in ApiPaths, inj \in Injections({"rename"}) :
          Done("rename_file", [path |-> old_path, new_path |-> new_path],
               rename_file(Start(fs, inj), old_path, new_path), FALSE)

CreateCheckpoint ==
    /\ Ready
    /\ \E path \in ApiPaths, inj \in Injections(CopySites) :
          Done("create_checkpoint", [path |-> path],
               create_checkpoint(Start(fs, inj), path), TRUE)

RestoreCheckpoint ==
    /\ Ready
    /\ \E path \in ApiPaths, id \in CheckpointIds, inj \in Injections(CopySites) :
          Done("restore_checkpoint", [path |-> path, checkpoint_id |-> id],
               restore_checkpoint(Start(fs, inj), id, path), FALSE)

RenameCheckpoint ==
    /\ Ready
    /\ \E old_path \in ApiPaths, new_path \in ApiPaths, id \in CheckpointIds,
          inj \in Injections({"rename"}) :
          Done("rename_checkpoint",
               [path |-> old_path, new_path |-> new_path, checkpoint_id |-> id],
               rename_checkpoint(Start(fs, inj), id, old_path, new_path), FALSE)

DeleteCheckpoint ==
    /\ Ready
    /\ \E path \in ApiPaths, id \in CheckpointIds, inj \in Injections({"delete"}) :
          Done("delete_checkpoint", [path |-> path, checkpoint_id |-> id],
               delete_checkpoint(Start(fs, inj), id, path), FALSE)

ListCheckpoints ==
    /\ Ready
    /\ \E path \in ApiPaths :
          Done("list_checkpoints", [path |-> path],
               list_checkpoints(Start(fs, NoInj), path), TRUE)

\* the caller takes the outcome of the call
Return ==
    /\ last # NoCall
    /\ last' = NoCall
    /\ UNCHANGED <<root_dir, fs, steps>>

Next ==
    \/ Get
    \/ Save
    \/ DeleteFile
    \/ RenameFile
    \/ CreateCheckpoint
    \/ RestoreCheckpoint
    \/ RenameCheckpoint
    \/ DeleteCheckpoint
    \/ ListCheckpoints
    \/ Return

Spec == Init /\ [][Next]_vars

\* the calls of the contents API alone: the checkpoints are touched by save only
NextContents ==
    \/ Get
    \/ Save
    \/ DeleteFile
    \/ RenameFile
    \/ Return

SpecContents == Init /\ [][NextContents]_vars


(***************************************************************************)
(* Properties.  In a state the last call's outcome is in last and the      *)
(* namespace it left in fs; in a step of a handler, fs is the namespace    *)
(* before the call and last' its outcome.                                  *)
(***************************************************************************)
Called(op) == last # NoCall /\ last.op = op
Succeeded(op) == Called(op) /\ last.exc = NoExc
Calling(op) == last = NoCall /\ last' # NoCall /\ last'.op = op

\* what list_checkpoints(path) returns in the namespace f
Listed(f, path) == list_checkpoints(Start(f, NoInj), path)
\* where the checkpoint of path is kept: the location create, list and delete use
CheckpointLoc(path) == Loc(fs_path_of(checkpoint_path_of(CHECKPOINT, path)))
\* where the entry of path is kept
EntryLoc(path) == Loc(fs_path_of(path))

SavedNotebook ==
    /\ Succeeded("save")
    /\ "type" \in DOMAIN last.args.model
    /\ last.args.model.type = "notebook"

\* C1: after every successful save of a model of type notebook, the first at a
\* path without checkpoint as well as every later one, list_checkpoints of the
\* path returns exactly one record.
C1_OneCheckpointAfterSave ==
    SavedNotebook =>
        /\ ~Failed(Listed(fs, last.args.path))
        /\ Len(Listed(fs, last.args.path).ret) = 1

\* C1 witness: a notebook was saved again over an earlier save: the checkpoint
\* holds the bytes of the earlier save, and still is the only record.
C1_Witness ==
    /\ SavedNotebook
    /\ Len(Listed(fs, last.args.path).ret) = 1
    /\ fs[CheckpointLoc(last.args.path)].data # <<>>
    /\ fs[CheckpointLoc(last.args.path)].data # fs[EntryLoc(last.args.path)].data

\* C2: every path a handler hands to the backend lies under root_dir (the
\* handlers that map their paths with _to_fs_path: all but rename_checkpoint).
C2_CallsUnderRoot ==
    (last # NoCall /\ last.op # "rename_checkpoint") =>
        \A l \in last.calls : IsPrefix(Loc(root_dir), l)

\* the backend calls that read or write data or change the namespace
GuardedSites ==
    {"upload", "open_w", "write", "open_r", "read", "mkdir", "chmod", "delete", "rename"}

\* C3: an OSError the backend raises out of a read or a mutating call reaches
\* the caller of the handler as the 403 of perm_to_403.
C3_BackendOSErrorIs403 ==
    (last # NoCall /\ last.raised.cls = "OSError" /\ last.raised.site \in GuardedSites)
        => last.exc = HTTPError(403, "Permission")

\* base64 text as RFC 4648 has it: groups of four characters of the alphabet
WellFormedBase64(text) ==
    /\ Len(text) % 4 = 0
    /\ \A i \in 1..Len(text) : in_alphabet(text[i])

\* text that UTF-8 can encode: no surrogate code point
EncodableText(text) == \A i \in 1..Len(text) : text[i] \notin 55296..57343

SavingFile(format) ==
    /\ Calling("save")
    /\ "type" \in DOMAIN last'.args.model /\ last'.args.model.type = "file"
    /\ "content" \in DOMAIN last'.args.model
    /\ "format" \in DOMAIN last'.args.model /\ last'.args.model.format = format
    /\ ~Failed(ensure_path_is_valid(Start(fs, NoInj), last'.args.path, "file", FALSE))

\* C4: a save of a file whose content is no base64 (format base64) or cannot be
\* encoded (format text), at a path that is valid for a file, fails with the
\* 400 of the content encoding error and leaves the namespace as it was.
C4_InvalidContentRejected ==
    [][ ( \/ SavingFile("base64") /\ ~WellFormedBase64(last'.args.model.content)
          \/ SavingFile("text") /\ ~EncodableText(last'.args.model.content) )
        => (last'.exc = HTTPError(400, "Encoding") /\ fs' = fs) ]_vars

RenamingOnto ==
    /\ Calling("rename_file")
    /\ Exists(fs, EntryLoc(last'.args.new_path))

\* C5: rename_file to a new_path that exists fails and leaves the namespace as
\* it was; with an old_path that exists and is not hidden the failure is the
\* "already exist" error of rename_file.
C5_RenameOntoExisting ==
    [][ RenamingOnto =>
          /\ last'.exc # NoExc
          /\ fs' = fs
          /\ (Exists(fs, EntryLoc(last'.args.path)) /\ ~is_hidden(last'.args.path))
                => last'.exc.kind = "Conflict" ]_vars

\* C5 witness: an entry was renamed onto another entry, both are still there.
C5_Witness ==
    /\ Called("rename_file")
    /\ last.args.path # last.args.new_path
    /\ last.exc.kind = "Conflict"
    /\ IsFile(fs, EntryLoc(last.args.path))
    /\ IsDir(fs, EntryLoc(last.args.new_path))

\* the names of the children of l that the API does not show: the dotted ones
HiddenChildren(f, l) == {x \in Children(f, l) : startswith(x[Len(x)], <<DOT>>)}

DeletingDir ==
    /\ Calling("delete_file")
    /\ IsDir(fs, EntryLoc(last'.args.path))
    /\ ~is_hidden(last'.args.path)
    /\ ~last'.raised.injected

\* C6 (under SpecContents, where every entry of a directory comes from a
\* save into it): delete_file of a directory fails with the "not empty" error and deletes
\* nothing while the directory has entries saved into it; once none of them
\* is left it succeeds and the directory is gone.
C6_DeleteDirectory ==
    [][ DeletingDir =>
          IF Children(fs, EntryLoc(last'.args.path))
               # HiddenChildren(fs, EntryLoc(last'.args.path))
          THEN last'.exc = HTTPError(400, "NotEmpty") /\ fs' = fs
          ELSE last'.exc = NoExc /\ ~Exists(fs', EntryLoc(last'.args.path)) ]_vars

RenamingCheckpoint ==
    /\ Calling("rename_checkpoint")
    /\ ~last'.raised.injected

\* nothing in the namespace stands in the way of a move from l to m: m is
\* free and its directory exists
CanMove(f, l, m) ==
    /\ l # m
    /\ ~Exists(f, m)
    /\ IsDir(f, SubSeq(m, 1, Len(m) - 1))

\* C7: rename_checkpoint moves the checkpoint of old_path, when there is one
\* (and the place of the checkpoint of new_path is free, in a directory that
\* exists), to the place of the checkpoint of new_path, so that
\* list_checkpoints then shows it for new_path and no longer for old_path;
\* when there is none it raises nothing and changes nothing.
C7_RenameMovesCheckpoint ==
    [][ RenamingCheckpoint =>
          IF Exists(fs, CheckpointLoc(last'.args.path))
          THEN CanMove(fs, CheckpointLoc(last'.args.path),
                       CheckpointLoc(last'.args.new_path))
                 => /\ Len(Listed(fs', last'.args.new_path).ret) = 1
                    /\ Len(Listed(fs', last'.args.path).ret) = 0
          ELSE last'.exc = NoExc /\ fs' = fs ]_vars

\* C8: list_checkpoints returns the empty list when the checkpoint of the path
\* does not exist and one record with the id "checkpoint" when it does; after
\* a successful create_checkpoint, the first or a repeated one, it returns
\* that one record and the checkpoint holds the bytes of the document.
C8_ListIsEmptyOrOne ==
    /\ Called("list_checkpoints") =>
          /\ last.exc = NoExc
          /\ last.ret = IF Exists(fs, CheckpointLoc(last.args.path))
                        THEN << <<[id |-> CHECKPOINT]>> >>
                        ELSE << <<>> >>
    /\ Succeeded("create_checkpoint") =>
          /\ last.ret = <<[id |-> CHECKPOINT]>>
          /\ Listed(fs, last.args.path).ret = <<[id |-> CHECKPOINT]>>
          /\ fs[CheckpointLoc(last.args.path)].data = fs[EntryLoc(last.args.path)].data

\* C8 witness: create_checkpoint has copied a document that holds bytes.
C8_Witness ==
    /\ Succeeded("create_checkpoint")
    /\ Listed(fs, last.args.path).ret = <<[id |-> CHECKPOINT]>>
    /\ fs[CheckpointLoc(last.args.path)].data = fs[EntryLoc(last.args.path)].data
    /\ fs[EntryLoc(last.args.path)].data # <<>>

DeletingCheckpoint ==
    /\ Calling("delete_checkpoint")
    /\ ~last'.raised.injected

\* C9: delete_checkpoint of a path whose checkpoint does not exist raises the
\* 404 "does not exist" error and changes nothing; of a path whose checkpoint
\* exists it succeeds, the checkpoint is gone and list_checkpoints returns the
\* empty list, so that a second delete_checkpoint raises the 404 again.
C9_DeleteCheckpoint ==
    [][ DeletingCheckpoint =>
          IF Exists(fs, CheckpointLoc(last'.args.path))
          THEN /\ last'.exc = NoExc
               /\ ~Exists(fs', CheckpointLoc(last'.args.path))
               /\ Listed(fs', last'.args.path).ret = <<>>
               /\ delete_checkpoint(Start(fs', NoInj), CHECKPOINT, last'.args.path).exc
                     = ClientHTTPError(404, "NotFound")
          ELSE /\ last'.exc.status = 404 /\ last'.exc.kind = "NotFound"
               /\ fs' = fs ]_vars

\* C9 witness: the checkpoint of a document was deleted, the document is kept.
C9_Witness ==
    /\ Succeeded("delete_checkpoint")
    /\ IsFile(fs, EntryLoc(last.args.path))
    /\ Listed(fs, last.args.path).ret = <<>>

\* the status the error of each kind is to carry
StatusOf(kind) ==
    IF kind \in {"NotFound", "OutOfRoot"} THEN 404
    ELSE IF kind \in {"HiddenPath", "WrongKind", "Conflict", "AlreadyExists",
                      "MissingField", "UnhandledType", "Encoding", "BadFormat"}
    THEN 400
    ELSE IF kind = "Permission" THEN 403
    ELSE IF kind = "InternalSave" THEN 500
    ELSE 0

\* C10: an error for a path that does not exist carries 404, an error for a
\* malformed request or an invalid path 400, a permission error 403, an
\* internal error of save 500.
C10_StatusOfFault ==
    (last # NoCall /\ StatusOf(last.exc.kind) # 0)
        => last.exc.status = StatusOf(last.exc.kind)

\* the kinds of the errors the handlers raise on purpose, each an HTTPError
PublicKinds ==
    {"OutOfRoot", "HiddenPath", "WrongKind", "NotFound", "AlreadyExists", "Conflict",
     "NotEmpty", "Permission", "Encoding", "BadFormat", "Unreadable", "Write",
     "MissingField", "UnhandledType"}

\* the fault the backend injected during the call whose outcome is o
InjOf(o) ==
    IF o.raised.injected
    THEN [site |-> o.raised.site,
          exc |-> IF o.raised.cls = "OSError" THEN OSError ELSE OtherError]
    ELSE NoInj

\* save is called at a path that _ensure_path_is_valid accepts
SavingAtValidPath ==
    /\ Calling("save")
    /\ ~Failed(ensure_path_is_valid(Start(fs, NoInj), last'.args.path, None, FALSE))

MissingField(model) ==
    \/ "type" \notin DOMAIN model
    \/ "content" \notin DOMAIN model /\ model.type # "directory"

\* what the dispatch on the type of save's model ends in, for the call whose
\* outcome is o, made in the namespace f
DispatchOf(f, o) == save_dispatch(Start(f, InjOf(o)), o.args.model, o.args.path)

\* C11: in save at a valid path, a model without type, or without content when
\* the type is not directory, fails with the 400 of the missing field and a
\* model of a type other than notebook, file, directory with the 400 of the
\* unhandled type, the namespace left as it was; an error the dispatch on the
\* type ends in reaches the caller as it is when it is one the handlers raise
\* on purpose, and as the 500 of save, the exception the backend raised kept
\* with it, when it is any other.
C11_SaveFaults ==
    [][ SavingAtValidPath =>
          IF MissingField(last'.args.model)
          THEN last'.exc = HTTPError(400, "MissingField") /\ fs' = fs
          ELSE IF last'.args.model.type \notin {"notebook", "file", "directory"}
          THEN last'.exc = HTTPError(400, "UnhandledType") /\ fs' = fs
          ELSE Failed(DispatchOf(fs, last')) =>
                 IF DispatchOf(fs, last').exc.kind \in PublicKinds
                 THEN last'.exc = DispatchOf(fs, last').exc
                 ELSE /\ last'.exc = HTTPError(500, "InternalSave")
                      /\ last'.raised.cls = DispatchOf(fs, last').exc.cls ]_vars

\* C11 witness: the notebook was written, the copy into its checkpoint failed
\* in the backend, save has raised its 500.
C11_Witness ==
    /\ Called("save")
    /\ last.exc = HTTPError(500, "InternalSave")
    /\ last.raised.site \in CopySites
    /\ last.raised.cls = "OSError"
    /\ IsFile(fs, EntryLoc(last.args.path))

\* the model m holds no content and no format
Contentless(m) == m.content = <<>> /\ m.format = None

\* the models of the children in the listing of the directory model m
ChildrenOf(m) == m.content[1]

\* C12: the model a successful get returns holds content exactly when content
\* was asked for, and a format exactly when it holds content; every child in
\* the listing of a directory model, and the model a successful save returns,
\* hold no content and no format.
C12_ContentAndFormat ==
    /\ Succeeded("get") =>
          /\ (last.ret[1].content # <<>>) <=> last.args.content
          /\ (last.ret[1].format # None) <=> (last.ret[1].content # <<>>)
          /\ (last.ret[1].type = "directory" /\ last.ret[1].content # <<>>) =>
                \A i \in 1..Len(ChildrenOf(last.ret[1])) :
                    Contentless(ChildrenOf(last.ret[1])[i])
    /\ Succeeded("save") => Contentless(last.ret[1])

\* C12 witness: the listing of a directory that holds a notebook was returned:
\* the directory model has the listing as content and 'json' as format, the
\* child is the notebook without content.
C12_Witness ==
    /\ Succeeded("get")
    /\ last.args.content
    /\ last.ret[1].type = "directory"
    /\ last.ret[1].format = "json"
    /\ Len(ChildrenOf(last.ret[1])) = 1
    /\ ChildrenOf(last.ret[1])[1].type = "notebook"
    /\ Contentless(ChildrenOf(last.ret[1])[1])

\* some '/'-delimited component of the API path itself starts with '.'
DottedApiPath(path) == any_dotted(split(strip(path, SLASH), SLASH))

\* the API paths of the call whose outcome is o
PathsOf(o) ==
    {o.args.path} \cup (IF "new_path" \in DOMAIN o.args THEN {o.args.new_path} ELSE {})

\* C13: whatever root_dir is, is_hidden of the API path a handler is called
\* with is true exactly when a component of that API path starts with '.', so
\* that save, delete_file and rename_file (and the validation of get) reject a
\* path as hidden only when the API path has such a component.
C13_HiddenIsOfApiPath ==
    last # NoCall =>
        /\ \A p \in PathsOf(last) : is_hidden(p) <=> DottedApiPath(p)
        /\ (last.op \in {"get", "save", "delete_file", "rename_file"}
              /\ last.exc.kind = "HiddenPath")
             => \E p \in PathsOf(last) : DottedApiPath(p)

\* the kind get is to build the model of path as, in the namespace f, when the
\* caller gives the type hint: notebook for a name that ends in .ipynb, else
\* the hint, else the kind the backend reports
KindFor(f, path, hint) ==
    IF endswith(last_part(path), IPYNB) THEN "notebook"
    ELSE IF hint # None THEN hint
    ELSE f[EntryLoc(path)].kind

\* what the builder of that kind ends in for the get whose outcome is o
BuiltAs(f, o) ==
    get_as(Start(f, InjOf(o)), o.args.path, o.args.content, o.args.format,
           KindFor(f, o.args.path, o.args.type))

\* C14: a get of a path that exists, or with a type given, ends as the builder
\* of one kind ends: of notebook when the name ends in .ipynb, whatever the
\* backend reports and whatever type the caller gives, else of the type given,
\* else of the kind the backend reports; the model it returns is the model of
\* that builder and has that kind as type.
C14_KindOfGet ==
    (Called("get") /\ (Exists(fs, EntryLoc(last.args.path)) \/ last.args.type # None))
        => /\ last.exc = BuiltAs(fs, last).exc
           /\ last.exc = NoExc =>
                /\ last.ret = <<BuiltAs(fs, last).ret>>
                /\ last.ret[1].type = KindFor(fs, last.args.path, last.args.type)

\* C14 witness: a get with the type directory of a saved .ipynb file has
\* returned a notebook model.
C14_Witness ==
    /\ Succeeded("get")
    /\ endswith(last.args.path, IPYNB)
    /\ last.args.type = "directory"
    /\ fs[EntryLoc(last.args.path)].kind = "file"
    /\ last.ret[1].type = "notebook"

\* the location l holds in g what it holds in f, or nothing in both
SameAt(f, g, l) ==
    /\ Exists(f, l) <=> Exists(g, l)
    /\ Exists(f, l) => f[l] = g[l]

\* restore_checkpoint of a document that has no checkpoint
RestoringNothing ==
    /\ Calling("restore_checkpoint")
    /\ ~last'.raised.injected
    /\ IsFile(fs, EntryLoc(last'.args.path))
    /\ ~Exists(fs, CheckpointLoc(last'.args.path))

\* create_checkpoint of a document that does not exist
CheckpointingNothing ==
    /\ Calling("create_checkpoint")
    /\ ~last'.raised.injected
    /\ ~Exists(fs, EntryLoc(last'.args.path))

\* C15: a copy whose source does not exist fails and leaves its destination
\* as it was: restore_checkpoint of a document without checkpoint keeps the
\* bytes of the document, create_checkpoint of a document that does not exist
\* leaves no checkpoint file behind.
C15_CopyOfNothing ==
    [][ /\ RestoringNothing =>
             /\ last'.exc # NoExc
             /\ SameAt(fs, fs', EntryLoc(last'.args.path))
        /\ CheckpointingNothing =>
             /\ last'.exc # NoExc
             /\ SameAt(fs, fs', CheckpointLoc(last'.args.path)) ]_vars
====
